---- MODULE Spec2Model ----
(***************************************************************************)
(* Model of bot/great-escape.py: the Board (cells, players, walls), the    *)
(* breadth-first shortest-path search, the blocking-wall heuristic and     *)
(* the per-turn decision of the game loop.                                 *)
(*                                                                         *)
(* A cell is the pair <<x, y>>; the source indexes the grid as map[y][x].  *)
(* Python's None is modelled by the empty tuple <<>> wherever the other    *)
(* values are tuples or sequences (a path returned by the search is never  *)
(* an empty list, a placement is a 3-tuple), and by NoGoal for the goal    *)
(* coordinates.                                                            *)
(***************************************************************************)
EXTENDS Integers, Sequences, FiniteSets, TLC

VARIABLES
    width, height, nb_player, my_id,  \* the first input line
    players, map,                     \* the Board
    updated,                          \* the ids update_player has been called with
    pc, i,                            \* position in the game loop, player being read
    paths, enemy_to_block, can_block_enemy,
    block_arg,                        \* the enemy path handed to try_to_block_enemy
    out, error                        \* the line printed, the exception raised

vars == <<width, height, nb_player, my_id, players, map, updated, pc, i,
          paths, enemy_to_block, can_block_enemy, block_arg, out, error>>

(* ------------------------------ bounds --------------------------------- *)
\* The first input lines of the main specification: <<width, height,
\* player_count>>. Every cell, every subset of wall cells up to MaxWallCells
\* and every placement of the players is explored on each of them.
Boards == {<<3, 2, 3>>, <<2, 3, 3>>, <<3, 3, 2>>, <<2, 2, 4>>}
\* ReadWall is taken only while it leaves at most this many wall cells.
MaxWallCells == 2
\* The walls_left read for the acting player is 0 or MaxWallsLeft.
MaxWallsLeft == 1

(* ------------------------------ values --------------------------------- *)
None == <<>>
NoGoal == -1

\* The cells of the grid: those the map was built with.
Cells == DOMAIN map

Range(s) == {s[k] : k \in 1..Len(s)}

RECURSIVE Reverse(_)
Reverse(s) == IF s = <<>> THEN <<>> ELSE Append(Reverse(Tail(s)), Head(s))

\* list.remove(v): drops the first occurrence of v.
RECURSIVE RemoveFirst(_, _)
RemoveFirst(s, v) ==
    IF s = <<>> THEN <<>>
    ELSE IF Head(s) = v THEN Tail(s)
    ELSE <<Head(s)>> \o RemoveFirst(Tail(s), v)

Abs(n) == IF n < 0 THEN -n ELSE n

(* ------------------------------- Cell ---------------------------------- *)
NewCell == [is_wall |-> FALSE, players |-> <<>>]

\* a.compare(b)
Compare(a, b) ==
    IF b[1] > a[1] THEN "RIGHT"
    ELSE IF b[1] < a[1] THEN "LEFT"
    ELSE IF b[2] > a[2] THEN "DOWN"
    ELSE "UP"

is_free(c) == ~(map[c].is_wall \/ Len(map[c].players) # 0)

euclidean_dist(a, b) == Abs(a[1] - b[1]) + Abs(a[2] - b[2])

(* ------------------------------ Player --------------------------------- *)
NewPlayer(id, x_goal, y_goal) ==
    [id |-> id, x |-> 0, y |-> 0, walls_left |-> 0,
     x_goal |-> x_goal, y_goal |-> y_goal]

(* ------------------------------- Board --------------------------------- *)
\* Mutant of Goals: the two column goals exchanged.
GoalsSwapped(w, h) == << <<0, NoGoal>>, <<w - 1, NoGoal>>, <<NoGoal, h - 1>>, <<NoGoal, 0>> >>

\* self.goals, indexed from 0 in the source and from 1 here.
Goals(w, h) == << <<w - 1, NoGoal>>, <<0, NoGoal>>, <<NoGoal, h - 1>>, <<NoGoal, 0>> >>

BoardPlayers(w, h, n) ==
    [id \in 0..(n - 1) |-> NewPlayer(id, Goals(w, h)[id + 1][1], Goals(w, h)[id + 1][2])]

BoardMap(w, h) == [c \in {<<x, y>> : x \in 0..(w - 1), y \in 0..(h - 1)} |-> NewCell]

\* Mutant of UpdatePlayerMap: the reference in the previous cell is kept.
UpdatePlayerMapNoRemove(id, x, y) == [map EXCEPT ![<<x, y>>].players = Append(@, id)]

\* The map and the players after update_player(id, x, y, walls_left).
UpdatePlayerMap(id, x, y) ==
    LET old == <<players[id].x, players[id].y>>
        removed == IF id \in Range(map[old].players)
                   THEN [map EXCEPT ![old].players = RemoveFirst(@, id)]
                   ELSE map
    IN [removed EXCEPT ![<<x, y>>].players = Append(@, id)]

UpdatePlayerPlayers(id, x, y, walls_left) ==
    [players EXCEPT ![id].x = x, ![id].y = y, ![id].walls_left = walls_left]

_cell_exist(cell_x, cell_y) ==
    (cell_x >= 0 /\ cell_x < width) /\ (cell_y >= 0 /\ cell_y < height)

\* The cells add_wall(x, y, orientation) marks.
WallCells(x, y, orientation) ==
    {<<x, y>>}
    \cup (IF orientation = "V" /\ y + 1 < height THEN {<<x, y + 1>>} ELSE {})
    \cup (IF orientation = "H" /\ x + 1 < width THEN {<<x + 1, y>>} ELSE {})

AddWallMap(x, y, orientation) ==
    [c \in DOMAIN map |->
        IF c \in WallCells(x, y, orientation)
        THEN [map[c] EXCEPT !.is_wall = TRUE] ELSE map[c]]

player_cell(player_id) == <<players[player_id].x, players[player_id].y>>

\* Mutant of Directions: the second direction mistyped as a diagonal.
DirectionsTypo == << <<1, 0>>, <<1, 1>>, <<-1, 0>>, <<0, -1>> >>

Directions == << <<1, 0>>, <<0, 1>>, <<-1, 0>>, <<0, -1>> >>

\* _cell_neighbours(cell, wall): with wall = TRUE the source appends nothing.
RECURSIVE NeighboursFrom(_, _, _)
NeighboursFrom(cell, wall, k) ==
    IF k > Len(Directions) THEN <<>>
    ELSE LET temp_cell == <<cell[1] + Directions[k][1], cell[2] + Directions[k][2]>>
         IN (IF /\ _cell_exist(temp_cell[1], temp_cell[2])
                /\ ~wall /\ ~map[temp_cell].is_wall
             THEN <<temp_cell>> ELSE <<>>)
            \o NeighboursFrom(cell, wall, k + 1)

\* Mutant of _cell_neighbours: the wall flag of the neighbour is not tested.
RECURSIVE NeighboursThroughWalls(_, _, _)
NeighboursThroughWalls(cell, wall, k) ==
    IF k > Len(Directions) THEN <<>>
    ELSE LET temp_cell == <<cell[1] + Directions[k][1], cell[2] + Directions[k][2]>>
         IN (IF _cell_exist(temp_cell[1], temp_cell[2]) /\ ~wall
             THEN <<temp_cell>> ELSE <<>>)
            \o NeighboursThroughWalls(cell, wall, k + 1)

_cell_neighbours_through_walls(cell, wall) == NeighboursThroughWalls(cell, wall, 1)

_cell_neighbours(cell, wall) == NeighboursFrom(cell, wall, 1)

(* ------------------------ find_shortest_path --------------------------- *)
\* current_cell.x == player.x_goal or current_cell.y == player.y_goal
IsGoal(cell, player) == cell[1] = player.x_goal \/ cell[2] = player.y_goal

\* The for loop over the neighbours: found_cells is a function whose domain
\* is the set of keys of the dictionary.
RECURSIVE VisitNeighbours(_, _, _, _)
VisitNeighbours(neighbours, current_cell, found_cells, next_level) ==
    IF neighbours = <<>> THEN [found_cells |-> found_cells, next_level |-> next_level]
    ELSE LET neighbour == Head(neighbours)
         IN IF neighbour \notin DOMAIN found_cells
            THEN VisitNeighbours(Tail(neighbours), current_cell,
                                 found_cells @@ (neighbour :> current_cell),
                                 Append(next_level, neighbour))
            ELSE VisitNeighbours(Tail(neighbours), current_cell, found_cells, next_level)

\* The inner while loop: the path from the goal cell back to the root.
RECURSIVE WalkBack(_, _)
WalkBack(current_cell, found_cells) ==
    IF current_cell \in DOMAIN found_cells /\ found_cells[current_cell] # None
    THEN <<current_cell>> \o WalkBack(found_cells[current_cell], found_cells)
    ELSE <<current_cell>>

\* Mutant of SearchLoop: the neighbours are visited before the rest of the
\* current level (a stack instead of a queue).
RECURSIVE SearchLoopDepthFirst(_, _, _, _)
SearchLoopDepthFirst(player, current_level, next_level, found_cells) ==
    IF Len(current_level) = 0 THEN None
    ELSE LET current_cell == Head(current_level)
             rest == Tail(current_level)
         IN IF IsGoal(current_cell, player)
            THEN Reverse(WalkBack(current_cell, found_cells))
            ELSE LET v == VisitNeighbours(_cell_neighbours(current_cell, FALSE),
                                          current_cell, found_cells, <<>>)
                 IN SearchLoopDepthFirst(player, v.next_level \o rest, <<>>, v.found_cells)

\* The outer while loop.
RECURSIVE SearchLoop(_, _, _, _)
SearchLoop(player, current_level, next_level, found_cells) ==
    IF Len(current_level) = 0 THEN None
    ELSE LET current_cell == Head(current_level)
             rest == Tail(current_level)
         IN IF IsGoal(current_cell, player)
            THEN Reverse(WalkBack(current_cell, found_cells))
            ELSE LET v == VisitNeighbours(_cell_neighbours(current_cell, FALSE),
                                          current_cell, found_cells, next_level)
                 IN IF Len(rest) = 0
                    THEN SearchLoop(player, v.next_level, <<>>, v.found_cells)
                    ELSE SearchLoop(player, rest, v.next_level, v.found_cells)

find_shortest_path(id) ==
    LET player == players[id]
        root == <<player.x, player.y>>
    IN SearchLoop(player, <<root>>, <<>>, (root :> None))

(* ------------------------ try_to_block_enemy --------------------------- *)
\* The scan of the enemy's path from index k (1-based; the source starts at
\* its index 1, the second cell).
RECURSIVE BlockScan(_, _, _)
BlockScan(enemy_path, my_path_dic, k) ==
    IF k > Len(enemy_path) THEN None
    ELSE LET cell == enemy_path[k]
             x == cell[1]
             y == cell[2]
             direction == Compare(enemy_path[k - 1], cell)
         IN IF cell \notin my_path_dic /\ ~map[cell].is_wall
            THEN IF direction = "UP" \/ direction = "DOWN"
                 THEN IF _cell_exist(x - 1, y) THEN <<x - 1, y, "H">>
                      ELSE IF _cell_exist(x + 1, y) THEN <<x + 1, y, "H">>
                      ELSE BlockScan(enemy_path, my_path_dic, k + 1)
                 ELSE IF _cell_exist(x, y - 1) THEN <<x, y - 1, "V">>
                      ELSE IF _cell_exist(x, y + 1) THEN <<x, y + 1, "V">>
                      ELSE BlockScan(enemy_path, my_path_dic, k + 1)
            ELSE BlockScan(enemy_path, my_path_dic, k + 1)

try_to_block_enemy(enemy_path, my_path) ==
    LET my_path_dic == {my_path[k] : k \in 2..Len(my_path)}
    IN BlockScan(enemy_path, my_path_dic, 2)

(* --------------------------- turn decision ----------------------------- *)
\* The loop choosing enemy_to_block. len() of an absent path raises
\* TypeError; both len(paths[my_id]) and len(paths[k]) are evaluated in every
\* iteration (k = my_id skips the first operand of "or" and evaluates the
\* second).
RECURSIVE SelectLoop(_, _, _)
SelectLoop(P, k, target) ==
    IF k > nb_player - 1 THEN [fault |-> FALSE, target |-> target]
    ELSE IF P[my_id] = None \/ P[k] = None THEN [fault |-> TRUE, target |-> target]
    ELSE IF \/ (k # my_id /\ Len(P[my_id]) > Len(P[k]))
            \/ (Len(P[my_id]) = Len(P[k]) /\ my_id > k)
         THEN SelectLoop(P, k + 1, P[k])
         ELSE SelectLoop(P, k + 1, target)

\* Mutant of SelectTarget: the first qualifying opponent is kept.
RECURSIVE SelectLoopFirst(_, _)
SelectLoopFirst(P, k) ==
    IF k > nb_player - 1 THEN [fault |-> FALSE, target |-> None]
    ELSE IF P[my_id] = None \/ P[k] = None THEN [fault |-> TRUE, target |-> None]
    ELSE IF \/ (k # my_id /\ Len(P[my_id]) > Len(P[k]))
            \/ (Len(P[my_id]) = Len(P[k]) /\ my_id > k)
         THEN [fault |-> FALSE, target |-> P[k]]
         ELSE SelectLoopFirst(P, k + 1)

SelectTargetFirst(P) == SelectLoopFirst(P, 0)

SelectTarget(P) == SelectLoop(P, 0, None)

\* "%d %d %s" % can_block_enemy
FormatWall(w) == ToString(w[1]) \o " " \o ToString(w[2]) \o " " \o w[3]

\* Mutant of Emit: the move is printed whenever there is one to print.
EmitMoveFirst(P, can_block) ==
    IF Len(P[my_id]) >= 2
    THEN [out |-> Compare(player_cell(my_id), P[my_id][2]), error |-> ""]
    ELSE IF can_block # None THEN [out |-> FormatWall(can_block), error |-> ""]
    ELSE [out |-> "", error |-> "IndexError"]

\* The last lines of the loop body: what is printed, or the exception.
Emit(P, can_block) ==
    IF can_block # None THEN [out |-> FormatWall(can_block), error |-> ""]
    ELSE IF Len(P[my_id]) < 2 THEN [out |-> "", error |-> "IndexError"]
    ELSE [out |-> Compare(player_cell(my_id), P[my_id][2]), error |-> ""]

(* ------------------------------ actions -------------------------------- *)
NewBoard(w, h, n, me) ==
    /\ width = w /\ height = h /\ nb_player = n /\ my_id = me
    /\ players = BoardPlayers(w, h, n)
    /\ map = BoardMap(w, h)
    /\ updated = {}
    /\ pc = "players" /\ i = 0
    /\ paths = None /\ enemy_to_block = None /\ can_block_enemy = None
    /\ block_arg = None /\ out = "" /\ error = ""

Init ==
    \E b \in Boards : \E me \in 0..(b[3] - 1) : NewBoard(b[1], b[2], b[3], me)

\* One iteration of the loop reading the players: update_player(i, x, y,
\* walls_left). The first iteration of a turn starts the loop body anew; what
\* the previous turn computed is reassigned before it is read again.
ReadPlayer(x, y, walls_left) ==
    /\ pc \in {"players", "emitted"}
    /\ i < nb_player
    /\ _cell_exist(x, y)
    /\ players' = UpdatePlayerPlayers(i, x, y, walls_left)
    /\ map' = UpdatePlayerMap(i, x, y)
    /\ updated' = updated \cup {i}
    /\ i' = i + 1
    /\ pc' = IF i + 1 = nb_player THEN "walls" ELSE "players"
    /\ paths' = None /\ enemy_to_block' = None /\ can_block_enemy' = None
    /\ block_arg' = None /\ out' = "" /\ error' = ""
    /\ UNCHANGED <<width, height, nb_player, my_id>>

\* One iteration of the loop reading the walls: add_wall(x, y, orientation).
ReadWall(x, y, orientation) ==
    /\ pc = "walls"
    /\ _cell_exist(x, y)
    /\ Cardinality({c \in Cells : map[c].is_wall} \cup WallCells(x, y, orientation))
          <= MaxWallCells
    /\ map' = AddWallMap(x, y, orientation)
    /\ UNCHANGED <<width, height, nb_player, my_id, players, updated, pc, i,
                   paths, enemy_to_block, can_block_enemy, block_arg, out, error>>

\* The rest of the loop body: the paths, the target, the action.
Decide ==
    /\ pc = "walls"
    /\ paths' = [k \in 0..(nb_player - 1) |-> find_shortest_path(k)]
    /\ LET sel == SelectTarget(paths')
       IN /\ enemy_to_block' = sel.target
          /\ IF sel.fault
             THEN /\ can_block_enemy' = None /\ block_arg' = None
                  /\ out' = "" /\ error' = "TypeError"
             ELSE /\ block_arg' = IF sel.target # None /\ players[my_id].walls_left > 0
                                  THEN sel.target ELSE None
                  /\ can_block_enemy' = IF block_arg' # None
                                        THEN try_to_block_enemy(block_arg', paths'[my_id])
                                        ELSE None
                  /\ out' = Emit(paths', can_block_enemy').out
                  /\ error' = Emit(paths', can_block_enemy').error
    /\ pc' = IF error' = "" THEN "emitted" ELSE "crashed"
    /\ i' = 0
    /\ UNCHANGED <<width, height, nb_player, my_id, players, map, updated>>

Orientations == {"H", "V"}

\* The walls_left read for the player being read. Only the acting player's
\* count is ever read by the program, so the opponents' is left at one value.
WallsLeftInputs == IF i = my_id THEN {0, MaxWallsLeft} ELSE {MaxWallsLeft}

Next ==
    \/ \E x \in 0..(width - 1), y \in 0..(height - 1), w \in WallsLeftInputs :
          ReadPlayer(x, y, w)
    \/ \E x \in 0..(width - 1), y \in 0..(height - 1), o \in Orientations :
          ReadWall(x, y, o)
    \/ Decide

Spec == Init /\ [][Next]_vars

Decided == pc \in {"emitted", "crashed"}

(* ---------------------- the 9x9 two-player scenario --------------------- *)
\* What the scenario's turns read: <<x, y, walls_left>> per player id, and
\* the walls <<x, y, orientation>>.
ScenarioReads(id) ==
    IF id = 0 THEN {<<4, 8, 10>>, <<4, 7, 10>>, <<4, 8, 9>>, <<0, 8, 10>>}
    ELSE IF id = 1 THEN {<<4, 0, 10>>, <<4, 1, 10>>, <<4, 0, 9>>, <<8, 0, 10>>}
    ELSE {}

ScenarioWalls == {<<3, 4, "H">>, <<5, 8, "V">>, <<4, 0, "H">>}

InitScenario == NewBoard(9, 9, 2, 0)

NextScenario ==
    \/ \E r \in ScenarioReads(i) : ReadPlayer(r[1], r[2], r[3])
    \/ \E w \in ScenarioWalls : ReadWall(w[1], w[2], w[3])
    \/ Decide

SpecScenario == InitScenario /\ [][NextScenario]_vars

(* ------------------------------ claims --------------------------------- *)
Ids == 0..(nb_player - 1)

Adjacent(a, b) ==
    \/ (Abs(a[1] - b[1]) = 1 /\ a[2] = b[2])
    \/ (a[1] = b[1] /\ Abs(a[2] - b[2]) = 1)

WallSet == {c \in Cells : map[c].is_wall}

DirectionTokens == {"UP", "DOWN", "LEFT", "RIGHT"}

WallTokens ==
    {FormatWall(<<x, y, o>>) : x \in 0..(width - 1), y \in 0..(height - 1), o \in Orientations}

\* C1: whenever find_shortest_path returns a path, its first cell is the
\* player's current cell, its last cell satisfies the player's goal condition
\* and consecutive cells are 4-directionally adjacent.
C1_PathWellFormed ==
    Decided =>
        \A id \in Ids :
            paths[id] # None =>
                /\ Len(paths[id]) >= 1
                /\ paths[id][1] = player_cell(id)
                /\ IsGoal(paths[id][Len(paths[id])], players[id])
                /\ \A k \in 1..(Len(paths[id]) - 1) : Adjacent(paths[id][k], paths[id][k + 1])

\* A path that turns a corner on a board with walls.
C1_Witness ==
    /\ Decided
    /\ WallSet # {}
    /\ \E id \in Ids :
          /\ paths[id] # None
          /\ Len(paths[id]) >= 4
          /\ \E k \in 1..(Len(paths[id]) - 1) : paths[id][k][1] # paths[id][k + 1][1]
          /\ \E k \in 1..(Len(paths[id]) - 1) : paths[id][k][2] # paths[id][k + 1][2]

\* The cells reachable from the cells of S in at most n steps, a step going
\* to an adjacent cell that is not a wall.
RECURSIVE Within(_, _)
Within(S, n) ==
    IF n = 0 THEN S
    ELSE Within(S \cup {c \in Cells : ~map[c].is_wall /\ \E d \in S : Adjacent(c, d)}, n - 1)

\* C2: the returned path has the minimum number of steps: no cell satisfying
\* the player's goal condition is reachable, avoiding wall cells, in fewer
\* steps than the path takes.
C2_PathMinimal ==
    Decided =>
        \A id \in Ids :
            paths[id] # None =>
                \A n \in 0..(Len(paths[id]) - 2) :
                    \A c \in Within({player_cell(id)}, n) : ~IsGoal(c, players[id])

\* A returned path that is longer than the wall-free distance to the goal
\* edge: the walls force a detour.
C2_Witness ==
    /\ Decided
    /\ \E id \in Ids :
          /\ paths[id] # None
          /\ \E g \in Cells :
                /\ IsGoal(g, players[id])
                /\ euclidean_dist(player_cell(id), g) + 2 <= Len(paths[id]) - 1

C4_WallOffMyPath ==
    (Decided /\ can_block_enemy # None) =>
        /\ _cell_exist(can_block_enemy[1], can_block_enemy[2])
        /\ WallCells(can_block_enemy[1], can_block_enemy[2], can_block_enemy[3])
              \cap Range(paths[my_id]) = {}

\* C5: a placement returned by try_to_block_enemy marks at least one cell of
\* the enemy path it was computed for.
C5_WallOnEnemyPath ==
    (Decided /\ can_block_enemy # None) =>
        WallCells(can_block_enemy[1], can_block_enemy[2], can_block_enemy[3])
            \cap Range(block_arg) # {}

\* Some opponent's path is strictly shorter than the acting player's and the
\* acting player has walls left.
ShorterOpponent ==
    /\ Decided
    /\ paths[my_id] # None
    /\ \E k \in Ids \ {my_id} : paths[k] # None /\ Len(paths[k]) < Len(paths[my_id])
    /\ players[my_id].walls_left > 0

\* C6 as stated: with a strictly shorter opponent and walls left, the action
\* is a wall placement and never a direction token.
C6_AlwaysWall ==
    ShorterOpponent => (out \notin DirectionTokens /\ (error = "" => out \in WallTokens))

\* C6 amended: with a strictly shorter opponent and walls left, the action is
\* the wall placement whenever try_to_block_enemy returns one for the selected
\* target, and it is a direction token only when try_to_block_enemy was called
\* on the selected target and returned none, every cell of the target's path
\* after its first being on the acting player's own path.
C6_WallUnlessNoPlacement ==
    ShorterOpponent =>
        /\ can_block_enemy # None => out = FormatWall(can_block_enemy) /\ out \in WallTokens
        /\ out \in DirectionTokens =>
              /\ can_block_enemy = None
              /\ enemy_to_block # None /\ block_arg = enemy_to_block
              /\ out = Compare(player_cell(my_id), paths[my_id][2])
              /\ \A k \in 2..Len(enemy_to_block) :
                    \E m \in 2..Len(paths[my_id]) : enemy_to_block[k] = paths[my_id][m]
        /\ error = "" => out \in (DirectionTokens \cup WallTokens)

\* Both outcomes of the amended C6 have been seen: here a wall is emitted
\* for a target that is strictly shorter.
C6_Witness ==
    /\ ShorterOpponent
    /\ can_block_enemy # None
    /\ out = FormatWall(can_block_enemy)
    /\ Len(enemy_to_block) < Len(paths[my_id])

\* C7: the turn decision never faults.
C7_NeverFaults == error = ""

\* The occupant collection of cell c in map m without the references to
\* player id.
Without(m, c, id) == SelectSeq(m[c].players, LAMBDA p : p # id)

\* Every reference in an occupant collection is to a player that has been
\* updated and stands on that cell, no collection holds a player twice, and
\* every updated player is in the collection of its cell.
C8_Occupancy ==
    /\ \A c \in Cells :
          \A k \in 1..Len(map[c].players) :
              /\ map[c].players[k] \in updated
              /\ player_cell(map[c].players[k]) = c
              /\ \A m \in 1..(k - 1) : map[c].players[m] # map[c].players[k]
    /\ \A id \in updated : id \in Range(map[player_cell(id)].players)

\* C8: after any sequence of update_player calls every player updated at
\* least once is exactly once in the occupant collection of its current cell
\* and in no other; the call for player i never changes another player's
\* position, walls_left or occupancy. (The steps with i' = i + 1 are the
\* calls of update_player.)
C8_UpdatePlayer ==
    [][ i' = i + 1 =>
          /\ C8_Occupancy'
          /\ \A id \in Ids \ {i} : players'[id] = players[id]
          /\ \A c \in Cells : Without(map', c, i) = Without(map, c, i) ]_vars

\* Two players share a cell, the lower id having arrived after the higher
\* one: the lower id has been updated in a later turn, its reference removed
\* from the cell it stood on.
C8_Witness ==
    /\ updated = Ids
    /\ \E c \in Cells :
          /\ Len(map[c].players) >= 2
          /\ map[c].players[1] > map[c].players[2]
    /\ C8_Occupancy

\* The 9x9 scenario: two players, no walls, player 0 at (4, 8) and player 1
\* at (4, 0) with 10 walls left each, player 0 acting, the turn decided.
Scenario ==
    /\ Decided
    /\ width = 9 /\ height = 9 /\ nb_player = 2 /\ my_id = 0
    /\ WallSet = {}
    /\ players[0].x = 4 /\ players[0].y = 8 /\ players[0].walls_left = 10
    /\ players[1].x = 4 /\ players[1].y = 0 /\ players[1].walls_left = 10

\* C9 as stated: in the scenario player 0's goal is row 0 and player 1's is
\* row 8, player 0's path is the column of 9 cells from (4, 8) up to (4, 0)
\* and the action is "UP".
C9_ScenarioUp ==
    Scenario =>
        /\ players[0].y_goal = 0 /\ players[1].y_goal = 8
        /\ paths[0] = [k \in 1..9 |-> <<4, 9 - k>>]
        /\ out = "UP"

\* C9 amended: in the scenario player 0's goal is column 8 and player 1's is
\* column 0, player 0's path is the row of 5 cells from (4, 8) right to
\* (8, 8) and the action is "RIGHT".
C9_ScenarioRight ==
    Scenario =>
        /\ players[0].x_goal = 8 /\ players[0].y_goal = NoGoal
        /\ players[1].x_goal = 0 /\ players[1].y_goal = NoGoal
        /\ paths[0] = [k \in 1..5 |-> <<3 + k, 8>>]
        /\ out = "RIGHT"

C9_Witness == Scenario /\ error = "" /\ Len(paths[0]) = 5 /\ Len(paths[1]) = 5

\* The opponents the selection rule qualifies.
Qualifying ==
    {k \in Ids \ {my_id} :
        \/ Len(paths[k]) < Len(paths[my_id])
        \/ (Len(paths[k]) = Len(paths[my_id]) /\ k < my_id)}

Max(S) == CHOOSE m \in S : \A n \in S : n <= m

\* C10: the block target is the path of the highest-id qualifying opponent;
\* with no qualifying opponent there is no target and try_to_block_enemy is
\* not called; it is only ever called with the target.
C10_Target ==
    (Decided /\ \A k \in Ids : paths[k] # None) =>
        IF Qualifying = {}
        THEN enemy_to_block = None /\ block_arg = None /\ can_block_enemy = None
        ELSE /\ enemy_to_block = paths[Max(Qualifying)]
             /\ block_arg \in {None, enemy_to_block}
             /\ block_arg = None => can_block_enemy = None

\* Two opponents with different paths qualify, one of them only by the tie
\* rule, and the higher id's path is the one handed to try_to_block_enemy.
C10_Witness ==
    /\ Decided /\ \A k \in Ids : paths[k] # None
    /\ \E lo \in Qualifying : \E hi \in Qualifying :
          /\ lo < hi /\ hi = Max(Qualifying)
          /\ paths[lo] # paths[hi]
          /\ Len(paths[lo]) = Len(paths[my_id])
          /\ block_arg = paths[hi]

====
